---- MODULE Spec2Model ----
(***************************************************************************)
(* Model of qq.py: the interactive generate/execute loop of generate(),    *)
(* as it is run by main().  Text is modelled as a sequence of one-character *)
(* strings, positions are 0-based as in Python.                            *)
(***************************************************************************)
EXTENDS Integers, Sequences, FiniteSets, TLC

(* ------------------------------ bounds --------------------------------- *)
\* generation calls made in one session
MaxCalls == 2
\* fragments delivered by the generation capability over one session
MaxChunks == 3
\* pieces (placeholders and literal text) of a prompt template
MaxPieces == 4

(* --------------------------- text helpers ------------------------------ *)
UpperLetters == <<"A","B","C","D","E","F","G","H","I","J","K","L","M",
                  "N","O","P","Q","R","S","T","U","V","W","X","Y","Z">>
LowerLetters == <<"a","b","c","d","e","f","g","h","i","j","k","l","m",
                  "n","o","p","q","r","s","t","u","v","w","x","y","z">>

IsSpace(c) == c \in {" ", "\t", "\n", "\r"}

\* str.strip(): drop leading and trailing whitespace
RECURSIVE LStrip(_)
LStrip(s) == IF s # <<>> /\ IsSpace(Head(s)) THEN LStrip(Tail(s)) ELSE s
RECURSIVE RStrip(_)
RStrip(s) ==
    IF s # <<>> /\ IsSpace(s[Len(s)]) THEN RStrip(SubSeq(s, 1, Len(s) - 1)) ELSE s
Strip(s) == RStrip(LStrip(s))

\* str.lower()
LowerChar(c) ==
    IF \E i \in 1..Len(UpperLetters) : UpperLetters[i] = c
    THEN LowerLetters[CHOOSE i \in 1..Len(UpperLetters) : UpperLetters[i] = c]
    ELSE c
Lower(s) == [i \in 1..Len(s) |-> LowerChar(s[i])]

\* s.find(sub, start): lowest 0-based index >= start where sub occurs, else -1
RECURSIVE FindFrom(_, _, _)
FindFrom(s, sub, start) ==
    IF start + Len(sub) > Len(s) THEN -1
    ELSE IF SubSeq(s, start + 1, start + Len(sub)) = sub THEN start
    ELSE FindFrom(s, sub, start + 1)
Find(s, sub) == FindFrom(s, sub, 0)

\* s[a:b] with Python's treatment of negative and out-of-range indices
SliceIndex(n, len) ==
    IF n < 0 THEN (IF n + len < 0 THEN 0 ELSE n + len)
    ELSE IF n > len THEN len ELSE n
Slice(s, a, b) ==
    LET lo == SliceIndex(a, Len(s))
        hi == SliceIndex(b, Len(s))
    IN  IF lo >= hi THEN <<>> ELSE SubSeq(s, lo + 1, hi)

\* s.replace(sub, ""): remove every non-overlapping occurrence, left to right
RECURSIVE RemoveAll(_, _)
RemoveAll(s, sub) ==
    LET i == Find(s, sub)
    IN  IF i = -1 THEN s
        ELSE SubSeq(s, 1, i) \o RemoveAll(SubSeq(s, i + Len(sub) + 1, Len(s)), sub)

(* ------------------------- program constants --------------------------- *)
OpenMarker  == <<"<","c","o","m","m","a","n","d",">">>
CloseMarker == <<"<","/","c","o","m","m","a","n","d",">">>

\* the composed system prompt (one fixed text per session)
SystemPrompt == <<"S">>

\* command = result[find("<command>") + len("<command>") : find("</command>")].strip()
ExtractCommand(text) ==
    LET command_start == Find(text, OpenMarker) + Len(OpenMarker)
        command_end   == Find(text, CloseMarker)
    IN  Strip(Slice(text, command_start, command_end))

\* variant: only the opening marker is removed
CleanResultOpenOnly(text) == RemoveAll(text, OpenMarker)

\* result.replace("<command>", "").replace("</command>", "")
CleanResult(text) == RemoveAll(RemoveAll(text, OpenMarker), CloseMarker)

\* variant: the line is trimmed but its case is kept
NormalizeChoiceKeepsCase(ln) == Strip(ln)

\* input().strip().lower()
NormalizeChoice(ln) == Lower(Strip(ln))

Turn(r, c) == [role |-> r, content |-> c]

(* ------------------------- environment inputs -------------------------- *)
\* texts of the fragments the generation capability may deliver
BodyText == <<" ","e","c","h","o">>
ChunkTexts == { OpenMarker \o <<" ","l","s">>, CloseMarker, BodyText, <<>> }
\* chunk.choices[0].delta.content: None or a (possibly empty) text
ChunkSet == { [none |-> TRUE, text |-> <<>>] }
            \cup { [none |-> FALSE, text |-> t] : t \in ChunkTexts }

\* lines typed at the choice prompt
ChoiceLines == { <<"x">>, <<" ","X"," ">>, <<"e">>, <<"E"," ">>, <<"r">>,
                 <<"\t","R">>, <<"q">>, <<>>, <<" ">>, <<"x","r">> }

\* queries given on the command line or at the reprompt
QuerySet == { <<"l","s">>, <<" ","q"," ">> }

\* what the user may leave in the temporary file
EditedTexts == { <<" ","d","u","\n">> }

\* NEEDED_KEYS
NeededKeys == << "OPENAI_API_KEY", "ANTHROPIC_API_KEY" >>
\* a credential variable is unset, set to the empty string, or set to a key
EnvValues == { "unset", "empty", "set" }
Environments == [ { NeededKeys[i] : i \in 1..Len(NeededKeys) } -> EnvValues ]

\* variant: only the first needed key is looked at
MissingKeysFirstOnly(e) ==
    IF e[NeededKeys[1]] \in {"unset", "empty"} THEN << NeededKeys[1] >> ELSE << >>

\* missing_keys = [key for key in NEEDED_KEYS if not os.getenv(key)]
MissingKeys(e) ==
    LET missing(k) == e[k] \in {"unset", "empty"}
    IN  SelectSeq(NeededKeys, missing)

\* the system prompt composed by explain()
ExplainSystemPrompt == <<"E">>

\* tmp.name
TmpName == <<"t","m","p">>
\* the words $EDITOR expands to
EditorWords == << <<"v","i">> >>
\* ["sh", "-c", "$EDITOR", tmp_filename]
EditorRunArgv(path) ==
    << <<"s","h">>, <<"-","c">>, <<"$","E","D","I","T","O","R">>, path >>
\* sh -c command_string command_name: the command string is expanded and run,
\* the operand after it becomes $0 of the shell and is not passed on
EditorProcessArgv(argv, words) ==
    IF argv[3] = <<"$","E","D","I","T","O","R">> THEN words ELSE << >>

(* ------------------------------- state --------------------------------- *)
VARIABLES
    pc,          \* position of the controller
    messages,    \* the conversation
    query,       \* text of the next user turn
    result,      \* text accumulated from the current stream (cleaned later)
    printed,     \* text printed for the current stream, closing newline included
    command,     \* the extracted command
    displayed,   \* the command shown in the "Command to execute" line
    line,        \* the line read at the choice prompt
    choice,      \* the normalised choice
    tmpExists,   \* the temporary file exists on disk
    tmpContent,  \* its content
    execArgv,    \* arguments handed to os.execlp
    exitCode,    \* exit status of the process, -1 while it has none
    diag,        \* a diagnostic was printed on the error stream
    errCause,    \* which failure ended the session
    genCalls,    \* generation calls started
    prompts,     \* choice prompts shown
    chunks,      \* fragments delivered so far
    env,         \* the credential variables of the environment
    mode,        \* "generate" (-g) or "explain"
    sent,        \* the messages argument of the latest generation call
    received,    \* the fragments of the current stream, concatenated
    supplied,    \* the text the user gave at the reprompt or left in the file
    editorArgv,  \* argument vector of the editor process started by sh
    template,    \* imbue(): the prompt argument, as its pieces
    info,        \* imbue(): the info argument, in iteration order
    imbued       \* imbue(): the value returned

vars == << pc, messages, query, result, printed, command, displayed, line,
           choice, tmpExists, tmpContent, execArgv, exitCode, diag, errCause,
           genCalls, prompts, chunks, env, mode, sent, received, supplied,
           editorArgv, template, info, imbued >>

NoChoice == <<"-">>

Init ==
    /\ pc = "await_model"
    /\ messages = << Turn("system", SystemPrompt) >>
    /\ query \in QuerySet
    /\ result = <<>>
    /\ printed = <<>>
    /\ command = <<>>
    /\ displayed = <<>>
    /\ line = <<>>
    /\ choice = NoChoice
    /\ tmpExists = FALSE
    /\ tmpContent = <<>>
    /\ execArgv = <<>>
    /\ exitCode = -1
    /\ diag = FALSE
    /\ errCause = "none"
    /\ genCalls = 0
    /\ prompts = 0
    /\ chunks = 0
    /\ env \in { e \in Environments : MissingKeys(e) = << >> }
    /\ mode = "generate"
    /\ sent = << >>
    /\ received = << >>
    /\ supplied = query
    /\ editorArgv = << >>
    /\ template = << >>
    /\ info = << >>
    /\ imbued = << >>

\* main(): except Exception -> print diagnostic on stderr, sys.exit(1)
Fatal(cause) ==
    /\ pc' = "error"
    /\ exitCode' = 1
    /\ diag' = TRUE
    /\ errCause' = cause

\* variant: every call starts the conversation afresh
CallModelResetsHistory ==
    /\ pc = "await_model"
    /\ messages' = << messages[1], Turn("user", query) >>
    /\ result' = <<>>
    /\ printed' = <<>>
    /\ genCalls' = genCalls + 1
    /\ pc' = "streaming"
    /\ UNCHANGED << query, command, displayed, line, choice, tmpExists,
                    tmpContent, execArgv, exitCode, diag, errCause, prompts,
                    chunks >>
    /\ sent' = messages'
    /\ received' = <<>>
    /\ UNCHANGED << env, mode, supplied, editorArgv, template, info, imbued >>

\* variant: the capability is given the system turn and the new query only
CallModelSendsLastOnly ==
    /\ pc = "await_model"
    /\ messages' = Append(messages, Turn("user", query))
    /\ result' = <<>>
    /\ printed' = <<>>
    /\ genCalls' = genCalls + 1
    /\ pc' = "streaming"
    /\ UNCHANGED << query, command, displayed, line, choice, tmpExists,
                    tmpContent, execArgv, exitCode, diag, errCause, prompts,
                    chunks >>
    /\ sent' = << messages[1], Turn("user", query) >>
    /\ received' = <<>>
    /\ UNCHANGED << env, mode, supplied, editorArgv, template, info, imbued >>

\* top of the loop: append the user turn, reset result, call the capability
CallModel ==
    /\ pc = "await_model"
    /\ messages' = Append(messages, Turn("user", query))
    /\ result' = <<>>
    /\ printed' = <<>>
    /\ genCalls' = genCalls + 1
    /\ pc' = "streaming"
    /\ UNCHANGED << query, command, displayed, line, choice, tmpExists,
                    tmpContent, execArgv, exitCode, diag, errCause, prompts,
                    chunks >>
    /\ sent' = messages'
    /\ received' = <<>>
    /\ UNCHANGED << env, mode, supplied, editorArgv, template, info, imbued >>

\* variant: result keeps only the latest fragment
ReceiveChunkOverwrites(c) ==
    /\ pc = "streaming"
    /\ chunks < MaxChunks
    /\ chunks' = chunks + 1
    /\ IF ~c.none /\ c.text # <<>>
       THEN /\ printed' = printed \o c.text
            /\ result' = c.text
       ELSE UNCHANGED << printed, result >>
    /\ UNCHANGED << pc, messages, query, command, displayed, line, choice,
                    tmpExists, tmpContent, execArgv, exitCode, diag, errCause,
                    genCalls, prompts >>
    /\ received' = received \o c.text
    /\ UNCHANGED << env, mode, sent, supplied, editorArgv, template, info, imbued >>

\* one iteration of "for chunk in llm(...)": print and accumulate if truthy
ReceiveChunk(c) ==
    /\ pc = "streaming"
    /\ chunks < MaxChunks
    /\ chunks' = chunks + 1
    /\ IF ~c.none /\ c.text # <<>>
       THEN /\ printed' = printed \o c.text
            /\ result' = result \o c.text
       ELSE UNCHANGED << printed, result >>
    /\ UNCHANGED << pc, messages, query, command, displayed, line, choice,
                    tmpExists, tmpContent, execArgv, exitCode, diag, errCause,
                    genCalls, prompts >>
    /\ received' = received \o c.text
    /\ UNCHANGED << env, mode, sent, supplied, editorArgv, template, info, imbued >>

\* the stream is exhausted: append the assistant turn, extract, clean, prompt
StreamEnds ==
    /\ pc = "streaming"
    /\ messages' = Append(messages, Turn("assistant", result))
    /\ command' = ExtractCommand(result)
    /\ result' = CleanResult(result)
    /\ displayed' = command'
    /\ prompts' = prompts + 1
    /\ pc' = "await_choice"
    /\ printed' = printed \o <<"\n">>
    /\ UNCHANGED << query, line, choice, tmpExists, tmpContent,
                    execArgv, exitCode, diag, errCause, genCalls, chunks >>
    /\ UNCHANGED << env, mode, sent, received, supplied, editorArgv, template, info, imbued >>

\* variant: the failure is swallowed and the same query is sent again
GenerationFailsRetries ==
    /\ pc = "streaming"
    /\ pc' = "await_model"
    /\ errCause' = "generation"
    /\ UNCHANGED << messages, query, result, printed, command, displayed, line,
                    choice, tmpExists, tmpContent, execArgv, exitCode, diag,
                    genCalls, prompts, chunks >>
    /\ UNCHANGED << env, mode, sent, received, supplied, editorArgv, template, info, imbued >>

\* the capability raises, before the first fragment or in mid-stream
GenerationFails ==
    /\ pc = "streaming"
    /\ Fatal("generation")
    /\ UNCHANGED << messages, query, result, printed, command, displayed, line,
                    choice, tmpExists, tmpContent, execArgv, genCalls, prompts,
                    chunks >>
    /\ UNCHANGED << env, mode, sent, received, supplied, editorArgv, template, info, imbued >>

\* os.execlp("zsh", "zsh", "-c", command)
ZshArgv(cmd) == << <<"z","s","h">>, <<"z","s","h">>, <<"-","c">>, cmd >>

\* variant: the command of the first assistant turn is run
ChooseExecStale(ln) ==
    /\ pc = "await_choice"
    /\ NormalizeChoice(ln) = <<"x">>
    /\ line' = ln
    /\ choice' = NormalizeChoice(ln)
    /\ execArgv' = ZshArgv(ExtractCommand(messages[3].content))
    /\ pc' = "exec"
    /\ UNCHANGED << messages, query, result, printed, command, displayed,
                    tmpExists, tmpContent, exitCode, diag, errCause, genCalls,
                    prompts, chunks >>
    /\ UNCHANGED << env, mode, sent, received, supplied, editorArgv, template, info, imbued >>

\* choice "x": os.execlp is called with the extracted command
ChooseExec(ln) ==
    /\ pc = "await_choice"
    /\ NormalizeChoice(ln) = <<"x">>
    /\ line' = ln
    /\ choice' = NormalizeChoice(ln)
    /\ execArgv' = ZshArgv(command)
    /\ pc' = "exec"
    /\ UNCHANGED << messages, query, result, printed, command, displayed,
                    tmpExists, tmpContent, exitCode, diag, errCause, genCalls,
                    prompts, chunks >>
    /\ UNCHANGED << env, mode, sent, received, supplied, editorArgv, template, info, imbued >>

\* the process image is replaced: nothing of this program runs afterwards
ExecSucceeds ==
    /\ pc = "exec"
    /\ pc' = "replaced"
    /\ UNCHANGED << messages, query, result, printed, command, displayed, line,
                    choice, tmpExists, tmpContent, execArgv, exitCode, diag,
                    errCause, genCalls, prompts, chunks >>
    /\ UNCHANGED << env, mode, sent, received, supplied, editorArgv, template, info, imbued >>

\* variant: a failed exec falls through to the next iteration of the loop
ExecFailsContinues ==
    /\ pc = "exec"
    /\ pc' = "await_model"
    /\ UNCHANGED << messages, query, result, printed, command, displayed, line,
                    choice, tmpExists, tmpContent, execArgv, exitCode, diag,
                    errCause, genCalls, prompts, chunks >>
    /\ UNCHANGED << env, mode, sent, received, supplied, editorArgv, template, info, imbued >>

\* os.execlp raises OSError, which main() reports
ExecFails ==
    /\ pc = "exec"
    /\ Fatal("exec")
    /\ UNCHANGED << messages, query, result, printed, command, displayed, line,
                    choice, tmpExists, tmpContent, execArgv, genCalls, prompts,
                    chunks >>
    /\ UNCHANGED << env, mode, sent, received, supplied, editorArgv, template, info, imbued >>

\* choice "e": the cleaned result is written to a new temporary file and the
\* editor is started
ChooseEdit(ln) ==
    /\ pc = "await_choice"
    /\ NormalizeChoice(ln) = <<"e">>
    /\ genCalls < MaxCalls
    /\ line' = ln
    /\ choice' = NormalizeChoice(ln)
    /\ tmpExists' = TRUE
    /\ tmpContent' = result
    /\ pc' = "editing"
    /\ UNCHANGED << messages, query, result, printed, command, displayed,
                    execArgv, exitCode, diag, errCause, genCalls, prompts,
                    chunks >>
    /\ editorArgv' = EditorProcessArgv(EditorRunArgv(TmpName), EditorWords)
    /\ UNCHANGED << env, mode, sent, received, supplied, template, info, imbued >>

\* choice "e", but tmp.write (or the close of the with block) raises: the
\* file was created with delete=False and the try/finally is not yet entered
ChooseEditWriteFails(ln) ==
    /\ pc = "await_choice"
    /\ NormalizeChoice(ln) = <<"e">>
    /\ line' = ln
    /\ choice' = NormalizeChoice(ln)
    /\ tmpExists' = TRUE
    /\ tmpContent' = <<>>
    /\ Fatal("write")
    /\ UNCHANGED << messages, query, result, printed, command, displayed,
                    execArgv, genCalls, prompts, chunks >>
    /\ UNCHANGED << env, mode, sent, received, supplied, editorArgv, template, info, imbued >>

\* variant: only the leading whitespace of the file content is dropped
EditorExitsZeroLStrip(content) ==
    /\ pc = "editing"
    /\ query' = LStrip(content)
    /\ tmpExists' = FALSE
    /\ tmpContent' = <<>>
    /\ pc' = "await_model"
    /\ UNCHANGED << messages, result, printed, command, displayed, line, choice,
                    execArgv, exitCode, diag, errCause, genCalls, prompts,
                    chunks >>
    /\ supplied' = content
    /\ UNCHANGED << env, mode, sent, received, editorArgv, template, info, imbued >>

\* the editor exits zero and the file is read back: query = read().strip(),
\* then the finally clause unlinks the file
EditorExitsZero(content) ==
    /\ pc = "editing"
    /\ query' = Strip(content)
    /\ tmpExists' = FALSE
    /\ tmpContent' = <<>>
    /\ pc' = "await_model"
    /\ UNCHANGED << messages, result, printed, command, displayed, line, choice,
                    execArgv, exitCode, diag, errCause, genCalls, prompts,
                    chunks >>
    /\ supplied' = content
    /\ UNCHANGED << env, mode, sent, received, editorArgv, template, info, imbued >>

\* variant: the editor's exit status is ignored and the loop goes on
EditorFailureIgnored ==
    /\ pc = "editing"
    /\ tmpExists' = FALSE
    /\ tmpContent' = <<>>
    /\ errCause' = "editor"
    /\ pc' = "await_model"
    /\ UNCHANGED << messages, query, result, printed, command, displayed, line,
                    choice, execArgv, exitCode, diag, genCalls, prompts,
                    chunks >>
    /\ UNCHANGED << env, mode, sent, received, supplied, editorArgv, template, info, imbued >>

\* the editor exits non-zero: check=True raises CalledProcessError, the
\* finally clause unlinks the file, main() reports the error
EditorExitsNonZero ==
    /\ pc = "editing"
    /\ tmpExists' = FALSE
    /\ tmpContent' = <<>>
    /\ Fatal("editor")
    /\ UNCHANGED << messages, query, result, printed, command, displayed, line,
                    choice, execArgv, genCalls, prompts, chunks >>
    /\ UNCHANGED << env, mode, sent, received, supplied, editorArgv, template, info, imbued >>

\* the editor exits zero but open()/read() raises: the finally clause
\* unlinks the file, main() reports the error
ReadFails ==
    /\ pc = "editing"
    /\ tmpExists' = FALSE
    /\ tmpContent' = <<>>
    /\ Fatal("read")
    /\ UNCHANGED << messages, query, result, printed, command, displayed, line,
                    choice, execArgv, genCalls, prompts, chunks >>
    /\ UNCHANGED << env, mode, sent, received, supplied, editorArgv, template, info, imbued >>

\* choice "r": the reprompt is shown
ChooseRetry(ln) ==
    /\ pc = "await_choice"
    /\ NormalizeChoice(ln) = <<"r">>
    /\ genCalls < MaxCalls
    /\ line' = ln
    /\ choice' = NormalizeChoice(ln)
    /\ pc' = "reprompt"
    /\ UNCHANGED << messages, query, result, printed, command, displayed,
                    tmpExists, tmpContent, execArgv, exitCode, diag, errCause,
                    genCalls, prompts, chunks >>
    /\ UNCHANGED << env, mode, sent, received, supplied, editorArgv, template, info, imbued >>

\* query = input("Enter your reprompt: ")
Reprompt(q) ==
    /\ pc = "reprompt"
    /\ query' = q
    /\ pc' = "await_model"
    /\ UNCHANGED << messages, result, printed, command, displayed, line, choice,
                    tmpExists, tmpContent, execArgv, exitCode, diag, errCause,
                    genCalls, prompts, chunks >>
    /\ supplied' = q
    /\ UNCHANGED << env, mode, sent, received, editorArgv, template, info, imbued >>

\* variant: an unrecognised line shows the prompt again
ChooseQuitReprompts(ln) ==
    /\ pc = "await_choice"
    /\ NormalizeChoice(ln) \notin { <<"x">>, <<"e">>, <<"r">> }
    /\ line' = ln
    /\ choice' = NormalizeChoice(ln)
    /\ pc' = "await_choice"
    /\ UNCHANGED << messages, query, result, printed, command, displayed,
                    tmpExists, tmpContent, execArgv, diag, errCause, genCalls,
                    exitCode,
                    prompts, chunks >>
    /\ UNCHANGED << env, mode, sent, received, supplied, editorArgv, template, info, imbued >>

\* case "q" | _: break; generate() and main() return, the process exits zero
ChooseQuit(ln) ==
    /\ pc = "await_choice"
    /\ NormalizeChoice(ln) \notin { <<"x">>, <<"e">>, <<"r">> }
    /\ line' = ln
    /\ choice' = NormalizeChoice(ln)
    /\ pc' = "done"
    /\ exitCode' = 0
    /\ UNCHANGED << messages, query, result, printed, command, displayed,
                    tmpExists, tmpContent, execArgv, diag, errCause, genCalls,
                    prompts, chunks >>
    /\ UNCHANGED << env, mode, sent, received, supplied, editorArgv, template, info, imbued >>

\* input() raises EOFError at the choice prompt or at the reprompt
InputEOF ==
    /\ pc \in {"await_choice", "reprompt"}
    /\ Fatal("eof")
    /\ UNCHANGED << messages, query, result, printed, command, displayed, line,
                    choice, tmpExists, tmpContent, execArgv, genCalls, prompts,
                    chunks >>
    /\ UNCHANGED << env, mode, sent, received, supplied, editorArgv, template, info, imbued >>

Next ==
    \/ CallModel
    \/ \E c \in ChunkSet : ReceiveChunk(c)
    \/ StreamEnds
    \/ GenerationFails
    \/ \E ln \in ChoiceLines : ChooseExec(ln)
    \/ ExecSucceeds
    \/ ExecFails
    \/ \E ln \in ChoiceLines : ChooseEdit(ln)
    \/ \E ln \in ChoiceLines : ChooseEditWriteFails(ln)
    \/ \E content \in {tmpContent} \cup EditedTexts : EditorExitsZero(content)
    \/ EditorExitsNonZero
    \/ ReadFails
    \/ \E ln \in ChoiceLines : ChooseRetry(ln)
    \/ \E q \in QuerySet : Reprompt(q)
    \/ \E ln \in ChoiceLines : ChooseQuit(ln)
    \/ InputEOF

Spec == Init /\ [][Next]_vars

\* the loop again, with fewer texts for the environment to choose from
FairChunkSet == { [none |-> TRUE, text |-> <<>>],
                  [none |-> FALSE, text |-> OpenMarker \o <<" ","l","s">>] }
FairChoiceLines == { <<"x">>, <<"E"," ">>, <<"r">>, <<"q">>, <<>> }
FairQuerySet == { <<"l","s">> }
FairInit == Init /\ query \in FairQuerySet
FairNext ==
    \/ CallModel
    \/ \E c \in FairChunkSet : ReceiveChunk(c)
    \/ StreamEnds
    \/ GenerationFails
    \/ \E ln \in FairChoiceLines : ChooseExec(ln)
    \/ ExecSucceeds
    \/ ExecFails
    \/ \E ln \in FairChoiceLines : ChooseEdit(ln)
    \/ \E ln \in FairChoiceLines : ChooseEditWriteFails(ln)
    \/ \E content \in {tmpContent} : EditorExitsZero(content)
    \/ EditorExitsNonZero
    \/ ReadFails
    \/ \E ln \in FairChoiceLines : ChooseRetry(ln)
    \/ \E q \in FairQuerySet : Reprompt(q)
    \/ \E ln \in FairChoiceLines : ChooseQuit(ln)
    \/ InputEOF

\* the program is sequential and every blocking call returns: the stream
\* delivers or ends, the user answers, the editor and the shell exit
FairSpec == FairInit /\ [][FairNext]_vars /\ WF_vars(FairNext)

(* ----------------------- start-up and explain mode --------------------- *)
\* the process as started: before the module-level key check
MainInit ==
    /\ pc = "startup"
    /\ messages = << >>
    /\ query \in QuerySet
    /\ result = <<>>
    /\ printed = <<>>
    /\ command = <<>>
    /\ displayed = <<>>
    /\ line = <<>>
    /\ choice = NoChoice
    /\ tmpExists = FALSE
    /\ tmpContent = <<>>
    /\ execArgv = <<>>
    /\ exitCode = -1
    /\ diag = FALSE
    /\ errCause = "none"
    /\ genCalls = 0
    /\ prompts = 0
    /\ chunks = 0
    /\ env \in Environments
    /\ mode \in {"generate", "explain"}
    /\ sent = << >>
    /\ received = << >>
    /\ supplied = query
    /\ editorArgv = << >>
    /\ template = << >>
    /\ info = << >>
    /\ imbued = << >>

\* if missing_keys: print the diagnostic on stderr, sys.exit(1)
KeysMissing ==
    /\ pc = "startup"
    /\ MissingKeys(env) # << >>
    /\ pc' = "error"
    /\ exitCode' = 1
    /\ diag' = TRUE
    /\ errCause' = "missing_keys"
    /\ UNCHANGED << messages, query, result, printed, command, displayed,
                    line, choice, tmpExists, tmpContent, execArgv, genCalls,
                    prompts, chunks, env, mode, sent, received, supplied,
                    editorArgv, template, info, imbued >>

\* main() with -g: generate() builds the conversation and enters its loop
StartGenerate ==
    /\ pc = "startup"
    /\ MissingKeys(env) = << >>
    /\ mode = "generate"
    /\ messages' = << Turn("system", SystemPrompt) >>
    /\ pc' = "await_model"
    /\ UNCHANGED << query, result, printed, command, displayed, line, choice,
                    tmpExists, tmpContent, execArgv, exitCode, diag,
                    errCause, genCalls, prompts, chunks, env, mode, sent,
                    received, supplied, editorArgv, template, info, imbued >>

\* main() without -g: explain() builds its two messages and calls the capability
ExplainCall ==
    /\ pc = "startup"
    /\ MissingKeys(env) = << >>
    /\ mode = "explain"
    /\ messages' = << Turn("system", ExplainSystemPrompt), Turn("user", query) >>
    /\ sent' = messages'
    /\ received' = << >>
    /\ genCalls' = genCalls + 1
    /\ pc' = "explain_streaming"
    /\ UNCHANGED << query, result, printed, command, displayed, line, choice,
                    tmpExists, tmpContent, execArgv, exitCode, diag,
                    errCause, prompts, chunks, env, mode, supplied,
                    editorArgv, template, info, imbued >>

\* variant: print(content) without end="", a newline after every fragment
ExplainReceiveChunkPerLine(c) ==
    /\ pc = "explain_streaming"
    /\ chunks < MaxChunks
    /\ chunks' = chunks + 1
    /\ received' = received \o c.text
    /\ IF ~c.none /\ c.text # <<>>
       THEN printed' = printed \o c.text \o <<"\n">>
       ELSE UNCHANGED printed
    /\ UNCHANGED << pc, messages, query, result, command, displayed, line,
                    choice, tmpExists, tmpContent, execArgv, exitCode, diag,
                    errCause, genCalls, prompts, env, mode, sent, supplied,
                    editorArgv, template, info, imbued >>

\* one iteration of explain()'s loop: print the fragment if it is truthy
ExplainReceiveChunk(c) ==
    /\ pc = "explain_streaming"
    /\ chunks < MaxChunks
    /\ chunks' = chunks + 1
    /\ received' = received \o c.text
    /\ IF ~c.none /\ c.text # <<>>
       THEN printed' = printed \o c.text
       ELSE UNCHANGED printed
    /\ UNCHANGED << pc, messages, query, result, command, displayed, line,
                    choice, tmpExists, tmpContent, execArgv, exitCode, diag,
                    errCause, genCalls, prompts, env, mode, sent, supplied,
                    editorArgv, template, info, imbued >>

\* the stream is exhausted: print(), explain() and main() return, exit status 0
ExplainStreamEnds ==
    /\ pc = "explain_streaming"
    /\ printed' = printed \o <<"\n">>
    /\ pc' = "done"
    /\ exitCode' = 0
    /\ UNCHANGED << messages, query, result, command, displayed, line,
                    choice, tmpExists, tmpContent, execArgv, diag, errCause,
                    genCalls, prompts, chunks, env, mode, sent, received,
                    supplied, editorArgv, template, info, imbued >>

\* the capability raises in explain mode: main() reports it and exits 1
ExplainFails ==
    /\ pc = "explain_streaming"
    /\ Fatal("generation")
    /\ UNCHANGED << messages, query, result, printed, command, displayed,
                    line, choice, tmpExists, tmpContent, execArgv, genCalls,
                    prompts, chunks, env, mode, sent, received, supplied,
                    editorArgv, template, info, imbued >>

MainNext ==
    \/ KeysMissing
    \/ StartGenerate
    \/ ExplainCall
    \/ \E c \in ChunkSet : ExplainReceiveChunk(c)
    \/ ExplainStreamEnds
    \/ ExplainFails
    \/ Next

MainSpec == MainInit /\ [][MainNext]_vars

(* ------------------------------- imbue() ------------------------------- *)
\* keys of the info dictionaries
KeyOs == <<"o","s">>
KeyOsVersion == <<"o","s","_","v","e","r","s","i","o","n">>
KeyColorSupport == <<"c","o","l","o","r","_","s","u","p","p","o","r","t">>

\* f":r:{key}"
Placeholder(key) == <<":","r",":">> \o key

\* a value of the dictionary: a text, or a bool (color_support in generate())
TextValue(t) == [kind |-> "str", text |-> t, flag |-> FALSE]
BoolValue(b) == [kind |-> "bool", text |-> << >>, flag |-> b]
\* str(value)
Str(v) ==
    IF v.kind = "bool"
    THEN (IF v.flag THEN <<"T","r","u","e">> ELSE <<"F","a","l","s","e">>)
    ELSE v.text

\* the dictionary of generate(), in insertion order, and that of explain()
InfoGenerate ==
    << [key |-> KeyOs, value |-> TextValue(<<"L","i","n","u","x">>)],
       [key |-> KeyOsVersion, value |-> TextValue(<<"5",".","4">>)],
       [key |-> KeyColorSupport, value |-> BoolValue(TRUE)] >>
InfoExplain ==
    << [key |-> KeyColorSupport,
        value |-> TextValue(<<"e","n","a","b","l","e","d">>)] >>
InfoSet == { InfoGenerate, InfoExplain }

\* the pieces a template is made of
LiteralPiece == <<" ","-"," ">>
PieceSet == { Placeholder(KeyOs), Placeholder(KeyOsVersion),
              Placeholder(KeyColorSupport), LiteralPiece }
TemplateSet == UNION { [ 1..n -> PieceSet ] : n \in 0..MaxPieces }
RECURSIVE Flatten(_)
Flatten(pieces) ==
    IF pieces = << >> THEN << >> ELSE Head(pieces) \o Flatten(Tail(pieces))

\* s.replace(old, new, 1)
ReplaceFirst(s, old, new) ==
    LET i == Find(s, old)
    IN  IF i = -1 THEN s
        ELSE SubSeq(s, 1, i) \o new \o SubSeq(s, i + Len(old) + 1, Len(s))

\* for key, value in info.items(): prompt = prompt.replace(f":r:{key}", str(value), 1)
RECURSIVE Imbue(_, _)
Imbue(prompt, items) ==
    IF items = << >> THEN prompt
    ELSE Imbue(ReplaceFirst(prompt, Placeholder(Head(items).key),
                            Str(Head(items).value)),
               Tail(items))

ImbueInit ==
    /\ pc = "imbue_call"
    /\ template \in TemplateSet
    /\ info \in InfoSet
    /\ imbued = << >>
    /\ messages = << >>
    /\ query = << >>
    /\ result = <<>>
    /\ printed = <<>>
    /\ command = <<>>
    /\ displayed = <<>>
    /\ line = <<>>
    /\ choice = NoChoice
    /\ tmpExists = FALSE
    /\ tmpContent = <<>>
    /\ execArgv = <<>>
    /\ exitCode = -1
    /\ diag = FALSE
    /\ errCause = "none"
    /\ genCalls = 0
    /\ prompts = 0
    /\ chunks = 0
    /\ env \in { e \in Environments : MissingKeys(e) = << >> }
    /\ mode = "generate"
    /\ sent = << >>
    /\ received = << >>
    /\ supplied = << >>
    /\ editorArgv = << >>

\* one call of imbue(prompt, info)
ImbueCall ==
    /\ pc = "imbue_call"
    /\ imbued' = Imbue(Flatten(template), info)
    /\ pc' = "imbue_done"
    /\ UNCHANGED << messages, query, result, printed, command, displayed,
                    line, choice, tmpExists, tmpContent, execArgv, exitCode,
                    diag, errCause, genCalls, prompts, chunks, env, mode,
                    sent, received, supplied, editorArgv, template, info >>

ImbueNext == ImbueCall

ImbueSpec == ImbueInit /\ [][ImbueNext]_vars

(* ------------------------------ claims --------------------------------- *)
LastTurn == messages[Len(messages)]
Contains(s, sub) ==
    \E i \in 1..(Len(s) - Len(sub) + 1) : SubSeq(s, i, i + Len(sub) - 1) = sub
\* ln is the one character lo (or its capital up) between runs of whitespace
TrimmedIs(ln, lo, up) ==
    \E k \in 1..Len(ln) :
        /\ ln[k] \in {lo, up}
        /\ \A j \in (1..Len(ln)) \ {k} : IsSpace(ln[j])
ChoiceRead == pc = "await_choice" /\ pc' # "await_choice" /\ errCause' # "eof"

\* C1: at every choice prompt the line read is trimmed and matched without
\* regard to case: "x" takes the exec action, "e" the edit action, "r" the
\* retry action, and the empty line or any other token ends the session
\* normally (exit status 0) with nothing handed to the shell.
C1_ChoiceDispatch ==
    [][ ChoiceRead =>
          /\ TrimmedIs(line', "x", "X") => pc' = "exec"
          /\ TrimmedIs(line', "e", "E") =>
                 \/ pc' = "editing"
                 \/ pc' = "error" /\ errCause' = "write"
          /\ TrimmedIs(line', "r", "R") => pc' = "reprompt"
          /\ ( /\ ~TrimmedIs(line', "x", "X")
               /\ ~TrimmedIs(line', "e", "E")
               /\ ~TrimmedIs(line', "r", "R") )
               => pc' = "done" /\ exitCode' = 0 /\ ~diag' /\ execArgv' = <<>>
      ]_vars
C1_Witness == pc = "exec" /\ line = <<" ","X"," ">>

\* C2: a response that contains neither "<command>" nor "</command>" yields
\* the empty command.
C2_NoMarkersEmptyCommand ==
    ( /\ pc = "await_choice"
      /\ ~Contains(LastTurn.content, OpenMarker)
      /\ ~Contains(LastTurn.content, CloseMarker) )
    => command = <<>>

\* C3: when "<command>" is followed later by "</command>", the command is the
\* trimmed text between the first "<command>" and the first "</command>"
\* after it, also when another "</command>" stands before the "<command>".
C3_FirstCloseAfterOpen ==
    LET text == LastTurn.content
        o == Find(text, OpenMarker)
        c == FindFrom(text, CloseMarker, o + Len(OpenMarker))
    IN  (pc = "await_choice" /\ o # -1 /\ c # -1)
        => command = Strip(SubSeq(text, o + Len(OpenMarker) + 1, c))

\* C4: choosing "x" is terminal: the shell is called with exactly the command
\* extracted from the latest assistant turn, and from then on there is no
\* generation call, no choice prompt and no conversation append, whether the
\* process replacement succeeds or fails.
C4_ExecTerminal ==
    [][ /\ (pc = "await_choice" /\ choice' = <<"x">>) =>
              /\ LastTurn.role = "assistant"
              /\ execArgv' = ZshArgv(ExtractCommand(LastTurn.content))
        /\ (choice = <<"x">>) =>
              /\ pc = "exec" /\ pc' \in {"replaced", "error"}
              /\ messages' = messages
              /\ genCalls' = genCalls
              /\ prompts' = prompts
              /\ execArgv' = execArgv
      ]_vars
C4_Witness ==
    /\ pc = "replaced"
    /\ genCalls = 2
    /\ execArgv = ZshArgv(<<"l","s">>)
    /\ ExtractCommand(messages[3].content) # <<"l","s">>

\* C5: the temporary file of the edit action is deleted on every exit path of
\* that action, and none exists at a choice prompt or in a generation call.
C5_TmpFileDeleted == tmpExists => pc = "editing"

\* C6: when the editor exits non-zero the edit attempt is aborted: no user
\* turn is appended and no generation call made, the temporary file is
\* deleted, and the process reports an error (diagnostic, exit status 1).
C6_EditorFailureAborts ==
    [][ /\ (pc = "editing" /\ errCause' = "editor") =>
              /\ ~tmpExists'
              /\ messages' = messages
              /\ genCalls' = genCalls
              /\ pc' = "error" /\ exitCode' = 1 /\ diag'
        /\ errCause # "editor"
      ]_vars
C6_Witness ==
    pc = "error" /\ errCause = "editor" /\ exitCode = 1 /\ LastTurn.role = "assistant"

\* C7: the conversation starts with the one system turn, the turns after it
\* alternate user, assistant, ..., and no action removes, reorders or changes
\* an existing turn.
RolesAlternate ==
    /\ Len(messages) >= 1
    /\ messages[1] = Turn("system", SystemPrompt)
    /\ \A i \in 2..Len(messages) :
          messages[i].role = (IF i % 2 = 0 THEN "user" ELSE "assistant")
AppendOnly ==
    /\ Len(messages') >= Len(messages)
    /\ SubSeq(messages', 1, Len(messages)) = messages
C7_ConversationShape == [] RolesAlternate /\ [][AppendOnly]_vars
C7_Witness == Len(messages) = 5 /\ pc = "await_choice"

\* C8: when a stream completes, exactly one assistant turn is appended and its
\* content is the concatenation, in arrival order, of the fragments printed;
\* an assistant turn is appended at no other step.
C8_AccumulatedEqualsPrinted ==
    [][ /\ (pc = "streaming" /\ pc' = "await_choice")
              => messages' = Append(messages, Turn("assistant", printed))
        /\ (messages' # messages /\ messages'[Len(messages')].role = "assistant")
              => (pc = "streaming" /\ pc' = "await_choice")
      ]_vars
C8_Witness ==
    /\ pc = "await_choice"
    /\ genCalls = 1
    /\ chunks = 3
    /\ LastTurn.content = BodyText \o BodyText

\* C9 as stated: the text written to the temporary file equals the content
\* of the assistant turn just appended.
C9_FileIsFullResponse == pc = "editing" => tmpContent = LastTurn.content
\* C9 amended: the text written is the latest assistant turn with every
\* "<command>" and then every "</command>" removed; it equals that turn
\* exactly when the turn contains neither marker.
C9_FileIsCleanedResponse ==
    pc = "editing" =>
        /\ LastTurn.role = "assistant"
        /\ tmpContent =
             RemoveAll(RemoveAll(LastTurn.content, OpenMarker), CloseMarker)
        /\ (tmpContent = LastTurn.content) <=>
             ( /\ ~Contains(LastTurn.content, OpenMarker)
               /\ ~Contains(LastTurn.content, CloseMarker) )
C9_Witness ==
    /\ pc = "editing"
    /\ Contains(LastTurn.content, OpenMarker)
    /\ Contains(LastTurn.content, CloseMarker)
    /\ tmpContent = <<" ","l","s">>

\* C10: when the generation capability fails, before the first fragment or in
\* mid-stream, no assistant turn is appended, no prompt is shown, nothing is
\* executed, no further generation call is made, and the process exits with
\* status 1 and a diagnostic.
C10_GenerationFailureAborts ==
    [][ /\ (pc = "streaming" /\ errCause' = "generation") =>
              /\ messages' = messages /\ LastTurn.role = "user"
              /\ prompts' = prompts
              /\ genCalls' = genCalls
              /\ execArgv' = execArgv
              /\ pc' = "error" /\ exitCode' = 1 /\ diag'
        /\ errCause # "generation"
      ]_vars
C10_Witness ==
    pc = "error" /\ errCause = "generation" /\ printed # <<>> /\ genCalls = 2

\* C11: if a required credential variable is unset at startup the process
\* exits non-zero before any generation call, in explain and in generate mode;
\* a generation call happens only in a run where both variables are present.
SomeKeyUnset == \E i \in 1..Len(NeededKeys) : env[NeededKeys[i]] = "unset"
C11_CredentialGate ==
    /\ [] ( (genCalls > 0 \/ sent # << >>) => ~SomeKeyUnset )
    /\ [][ (pc = "startup" /\ SomeKeyUnset) =>
              /\ pc' = "error" /\ exitCode' = 1 /\ diag'
              /\ genCalls' = 0 /\ sent' = << >> /\ messages' = << >>
         ]_vars
    /\ [][ errCause # "missing_keys" ]_vars
C11_Witness ==
    /\ pc = "error" /\ exitCode = 1 /\ genCalls = 0
    /\ env["OPENAI_API_KEY"] = "set"
    /\ env["ANTHROPIC_API_KEY"] = "unset"
    /\ mode = "explain"

\* C12: explain mode makes exactly one generation call, with the system turn
\* and the user turn holding the query; it prints the fragments in arrival
\* order with nothing between them and one newline after the last, shows no
\* prompt, makes no further turn, and exits with status 0.
ExplainShape ==
    mode = "explain" =>
        /\ genCalls <= 1 /\ prompts = 0 /\ execArgv = << >>
        /\ genCalls = 1 =>
              /\ sent = << Turn("system", ExplainSystemPrompt),
                           Turn("user", query) >>
              /\ messages = sent
        /\ pc = "done" =>
              /\ genCalls = 1
              /\ printed = received \o <<"\n">>
              /\ exitCode = 0 /\ ~diag
C12_ExplainSingleShot ==
    /\ [] ExplainShape
    /\ [][ ~(mode = "explain" /\ pc = "done") ]_vars
C12_Witness ==
    /\ mode = "explain" /\ pc = "done"
    /\ chunks = 3
    /\ printed = BodyText \o BodyText \o <<"\n">>

InfoKeys == { info[i].key : i \in 1..Len(info) }
Occurrences(piece) == { i \in 1..Len(template) : template[i] = piece }
ValueOf(key) == Str(info[CHOOSE i \in 1..Len(info) : info[i].key = key].value)

\* C13: for a template that holds the placeholder of every snapshot key
\* exactly once, in any order, the composed prompt holds no placeholder token
\* and holds every snapshot value verbatim.
C13_AllPlaceholdersSubstituted ==
    ( /\ pc = "imbue_done"
      /\ \A k \in InfoKeys : Cardinality(Occurrences(Placeholder(k))) = 1 )
    => /\ \A k \in InfoKeys : ~Contains(imbued, Placeholder(k))
       /\ \A k \in InfoKeys : Contains(imbued, ValueOf(k))

\* what the first-occurrence-only policy yields: the first piece that is the
\* placeholder of a snapshot key becomes the value, every other piece stays
FirstOccurrenceOnly ==
    Flatten([ i \in 1..Len(template) |->
                IF \E k \in InfoKeys :
                      /\ template[i] = Placeholder(k)
                      /\ \A j \in 1..(i - 1) : template[j] # template[i]
                THEN ValueOf(CHOOSE k \in InfoKeys : template[i] = Placeholder(k))
                ELSE template[i] ])
\* C14: in a template where a placeholder occurs twice the first occurrence is
\* replaced by the snapshot value and the second is left as it is; a
\* placeholder whose key is not in the snapshot is left verbatim.
C14_FirstOccurrenceOnly ==
    ( /\ pc = "imbue_done"
      /\ \/ \E k \in InfoKeys : Cardinality(Occurrences(Placeholder(k))) = 2
         \/ \E i \in 1..Len(template) :
               /\ template[i] # LiteralPiece
               /\ \A k \in InfoKeys : template[i] # Placeholder(k) )
    => imbued = FirstOccurrenceOnly

\* the step that appends the user turn of a call that follows an "e" or "r"
NextQuerySent == pc = "await_model" /\ pc' = "streaming" /\ genCalls >= 1
\* t is s without its leading and trailing whitespace
IsTrimOf(t, s) ==
    /\ t = << >> \/ (~IsSpace(t[1]) /\ ~IsSpace(t[Len(t)]))
    /\ \E a \in 0..Len(s) :
          /\ a + Len(t) <= Len(s)
          /\ SubSeq(s, a + 1, a + Len(t)) = t
          /\ \A i \in (1..a) \cup ((a + Len(t) + 1)..Len(s)) : IsSpace(s[i])

\* C15 as stated: the user turn appended after "r" or after "e" holds the
\* text the user supplied (the reprompt line, the file content as read back).
C15_NextQueryIsSupplied ==
    [][ NextQuerySent => messages'[Len(messages')] = Turn("user", supplied) ]_vars
\* C15 amended: after "r" the user turn holds the reprompt line as entered;
\* after "e" it holds the file content as read back without its leading and
\* trailing whitespace.
C15_NextQueryIsSuppliedOrTrimmed ==
    [][ NextQuerySent =>
          /\ messages'[Len(messages')].role = "user"
          /\ choice = <<"r">> => messages'[Len(messages')].content = supplied
          /\ choice = <<"e">> => IsTrimOf(messages'[Len(messages')].content, supplied)
      ]_vars
C15_Witness ==
    /\ pc = "streaming" /\ genCalls = 2 /\ choice = <<"e">>
    /\ supplied = <<" ","d","u","\n">>
    /\ LastTurn = Turn("user", <<"d","u">>)

Terminal == pc \in {"done", "replaced", "error"}
QuitChoice == choice \notin { NoChoice, <<"x">>, <<"e">>, <<"r">> }

\* C16 as stated, its safety part: the session leaves the loop only through
\* a choice of exec or quit.
C16_LeavesOnlyByExecOrQuit ==
    Terminal => (choice = <<"x">> \/ QuitChoice)
\* C16 amended: the session leaves the loop through a choice of exec or quit,
\* or through a failure that ends the process with status 1 and a diagnostic;
\* every "e" or "r" choice is followed by another generation call and another
\* choice prompt unless such a failure occurs; and with finite streams and a
\* user who eventually answers other than "e" or "r" the session ends.
LeavesByExecQuitOrFailure ==
    /\ pc = "done" => (QuitChoice /\ exitCode = 0)
    /\ pc \in {"exec", "replaced"} => choice = <<"x">>
    /\ pc = "error" =>
          /\ exitCode = 1 /\ diag
          /\ errCause \in {"generation", "editor", "read", "write", "eof", "exec"}
\* after "e" or "r" nothing but a failure stands between the choice and the
\* next generation call, and between that call and the next choice prompt
LoopStep ==
    /\ pc \in {"editing", "reprompt"} => pc' \in {"await_model", "error"}
    /\ pc = "await_model" => (pc' = "streaming" /\ genCalls' = genCalls + 1)
    /\ pc = "streaming" =>
          /\ pc' \in {"streaming", "await_choice", "error"}
          /\ pc' = "await_choice" => prompts' = prompts + 1
C16_LoopsUntilExecQuitOrFailure ==
    /\ [] LeavesByExecQuitOrFailure
    /\ [][ LoopStep ]_vars
    /\ <> Terminal
C16_Witness ==
    /\ pc = "await_choice" /\ genCalls = 2 /\ prompts = 2
    /\ choice = <<"e">>

\* C17: a command reaches the shell only as the direct result of an "x" at the
\* latest choice prompt, and it is the command shown in that prompt's "Command
\* to execute" line, extracted from the latest assistant turn; no other path
\* (edit, retry, quit, unrecognised input, an error) hands anything to the shell.
C17_OnlyExecRunsDisplayed ==
    /\ [] ( /\ execArgv # << >> => (choice = <<"x">> /\ execArgv = ZshArgv(displayed))
            /\ pc \in {"exec", "replaced"} => execArgv # << >> )
    /\ [][ execArgv' # execArgv =>
              /\ pc = "await_choice" /\ TrimmedIs(line', "x", "X")
              /\ LastTurn.role = "assistant"
              /\ displayed = ExtractCommand(LastTurn.content)
              /\ execArgv' = ZshArgv(displayed)
         ]_vars
C17_Witness ==
    /\ pc = "exec" /\ genCalls = 2
    /\ displayed = <<"l","s">>
    /\ execArgv = ZshArgv(displayed)
    /\ ExtractCommand(messages[3].content) # displayed

\* C18: every generation call of generate mode is given the whole conversation
\* in order: the n-th call gets 2n turns, the earlier ones unchanged and the new
\* user turn last; the number of calls started equals the number of user turns.
UserTurns == { i \in 1..Len(messages) : messages[i].role = "user" }
C18_WholeConversationSent ==
    /\ [] ( Cardinality(UserTurns) = genCalls )
    /\ [][ /\ genCalls' # genCalls =>
                /\ genCalls' = genCalls + 1
                /\ sent' = Append(messages, Turn("user", query))
                /\ Len(sent') = 2 * genCalls'
           /\ genCalls' = genCalls => sent' = sent
         ]_vars
C18_Witness ==
    /\ pc = "streaming" /\ genCalls = 2
    /\ Len(sent) = 4 /\ sent = messages
    /\ sent[3].content # << >>

\* C19: on "e" the editor is started with the path of the temporary file as
\* an argument of the editor itself.
C19_EditorGivenTmpPath ==
    pc = "editing" =>
        \E i \in 1..Len(editorArgv) : editorArgv[i] = TmpName
====
